---- MODULE Spec2Model ----
(***************************************************************************)
(* SyncStudio (manual-sync-studio): the word timeline, the recording       *)
(* (sync) controller and the audio transport of the page component, as a   *)
(* state machine.  One action per event handler of the component.          *)
(*                                                                         *)
(* The repository holds the component twice.  Spec is the one that renders *)
(* in the browser (src/unnamed/part_001); Spec_000 is the one that renders *)
(* through /api/render (src/unnamed/part_000).  Handlers whose code is the *)
(* same in both are modelled once; the handlers of part_000 that differ    *)
(* carry the suffix _000.                                                  *)
(*                                                                         *)
(* Times are integers in units of 0.01 s (0.05 s = 5, 0.5 s = 50).         *)
(* A "number | null" field is <<>> for null and <<t>> for the number t.    *)
(* A string is the sequence of its characters; word i of the source        *)
(* (0-based) is words[i + 1] here, and its id field keeps the 0-based i.   *)
(***************************************************************************)
EXTENDS Integers, Sequences, FiniteSets, TLC

VARIABLES
    scriptText,       \* useState scriptText
    words,            \* useState words: sequence of [id, text, time, endTime]
    syncIndex,        \* useState syncIndex (the cursor)
    currentTime,      \* useState currentTime (the playback clock shown)
    isSyncing,        \* useState isSyncing (Recording / Idle)
    isPlaying,        \* useState isPlaying
    audioSrc,         \* useState audioSrc: TRUE once an audio file is loaded
    audioTime,        \* audioRef.current.currentTime (transport position)
    audioPaused,      \* audioRef.current.paused
    wordPlayEndTime,  \* useRef wordPlayEndTime (segment boundary watch)
    alertMsg,         \* the alert() shown by the last handler, "none" if none
    download,         \* the record handed to the browser by the last export
    crashed,          \* an exception escaped a state updater: the tree is gone
    last,             \* history: the handler that ran last
    arg,              \* history: the input of the handler that ran last
    before,           \* history: words, cursor and position before a capture
    isRendering,      \* useState isRendering
    videoUrl,         \* useState videoUrl: null, or the location of the video
    renderStep,       \* where handleGenerateVideo stands between its awaits
    reqs,             \* /api/render: the requests and how far POST has got
    files             \* /api/render: the files POST and the compositor write

\* the variables of the video generation
renderVars == <<isRendering, videoUrl, renderStep, reqs, files>>

vars == <<scriptText, words, syncIndex, currentTime, isSyncing, isPlaying,
          audioSrc, audioTime, audioPaused, wordPlayEndTime, alertMsg,
          download, crashed, last, arg, before, isRendering, videoUrl,
          renderStep, reqs, files>>

----------------------------------------------------------------------------
(* Bounds and input sets *)

MaxWords == 2

Null == <<>>
Some(t) == <<t>>

Min(a, b) == IF a < b THEN a ELSE b
Max(a, b) == IF a > b THEN a ELSE b

\* JavaScript `x || d` and truthiness for a number | null | undefined value
Truthy(o) == o # Null /\ o[1] # 0
OrElse(o, d) == IF Truthy(o) THEN o[1] ELSE d

----------------------------------------------------------------------------
(* The audio element *)

\* length of the loaded audio; the Tick action moves the position over TickGrid
AudioDuration == 10
TickGrid == {AudioDuration}

\* audioRef.current.duration || 0: NaN (falsy) while no audio is loaded
DurationOr0 == IF audioSrc THEN AudioDuration ELSE 0

----------------------------------------------------------------------------
(* Word Timeline Model *)

Word(i, tx, t, e) == [id |-> i, text |-> tx, time |-> t, endTime |-> e]

\* the value of an expression that evaluated to undefined where a string is
\* expected (the text of an imported entry that has no usable field)
Undefined == <<"undefined">>

IsWs(c) == c = " "

RECURSIVE TrimLeft(_)
TrimLeft(s) == IF s # <<>> /\ IsWs(Head(s)) THEN TrimLeft(Tail(s)) ELSE s

RECURSIVE TrimRight(_)
TrimRight(s) ==
    IF s # <<>> /\ IsWs(s[Len(s)]) THEN TrimRight(SubSeq(s, 1, Len(s) - 1)) ELSE s

\* String.prototype.trim
Trim(s) == TrimRight(TrimLeft(s))

\* String.prototype.split(/\s+/): the pieces between maximal whitespace runs;
\* cur is the piece being read.  The empty string splits into [""].
RECURSIVE SplitWs(_, _)
SplitWs(s, cur) ==
    IF s = <<>> THEN <<cur>>
    ELSE IF IsWs(Head(s)) THEN <<cur>> \o SplitWs(TrimLeft(s), <<>>)
    ELSE SplitWs(Tail(s), Append(cur, Head(s)))

\* rawWords.map((w, i) => ({id: i, text: w, time: null, endTime: null}))
NewWords(script) ==
    LET rawWords == SplitWs(Trim(script), <<>>)
    IN  [i \in 1..Len(rawWords) |-> Word(i - 1, rawWords[i], Null, Null)]

----------------------------------------------------------------------------
(* The persisted timing format, as JSON.parse returns it *)

\* a JSON value where a number is expected: a number, or null
JNum(v) == [num |-> TRUE, val |-> v]
JOther == [num |-> FALSE, val |-> 0]

\* an element of the words array: an object with optional word / text fields
\* (Null when absent), or a non-object such as null (obj = FALSE)
Entry(w, tx, t, e) == [obj |-> TRUE, word |-> w, text |-> tx, time |-> t, endTime |-> e]
NullEntry == [obj |-> FALSE, word |-> Null, text |-> Null, time |-> JOther, endTime |-> JOther]

EntrySet ==
    { Entry(Some(<<"a">>), Some(<<"b">>), JNum(0), JOther),
      Entry(Null, Some(<<"a">>), JNum(10), JNum(11)),
      Entry(Some(<<>>), Some(<<"a">>), JOther, JNum(0)) }

RECURSIVE SeqsUpTo(_, _)
SeqsUpTo(S, n) ==
    IF n = 0 THEN {<<>>}
    ELSE LET shorter == SeqsUpTo(S, n - 1)
         IN  shorter \cup {Append(q, x) : q \in {r \in shorter : Len(r) = n - 1}, x \in S}

WordsList(items) == [kind |-> "list", items |-> items]
WordsMissing == [kind |-> "missing", items |-> <<>>]
\* a truthy value that is not an array (a number, an object)
WordsNotList == [kind |-> "notlist", items |-> <<>>]

Parsed(tx, ws) == [json |-> TRUE, text |-> tx, words |-> ws]
\* file content that JSON.parse rejects
NotJson == [json |-> FALSE, text |-> Null, words |-> WordsMissing]

ImportText == <<"a">>

FileContents ==
    {NotJson,
     Parsed(Null, WordsList(<<>>)),
     Parsed(Some(<<>>), WordsList(<<>>)),
     Parsed(Some(ImportText), WordsMissing),
     Parsed(Some(ImportText), WordsNotList)}
    \cup {Parsed(Some(ImportText), WordsList(l)) : l \in SeqsUpTo(EntrySet, MaxWords)}
    \cup {Parsed(Some(ImportText), WordsList(Append(l, NullEntry))) :
            l \in SeqsUpTo(EntrySet, 1)}

\* parsedData.text && parsedData.words
HasTextAndWords(d) ==
    /\ d.text # Null /\ d.text[1] # <<>>
    /\ d.words.kind # "missing"

\* w.word || w.text
EntryText(w) ==
    IF w.word # Null /\ w.word[1] # <<>> THEN w.word[1]
    ELSE IF w.text # Null THEN w.text[1]
    ELSE Undefined

\* part_000: w.time === 0 ? null : w.time
ImportTime_000(v) == IF v.num /\ v.val # 0 THEN Some(v.val) ELSE Null

\* part_000: w.endTime || null
ImportEndTime_000(v) == IF v.num /\ v.val # 0 THEN Some(v.val) ELSE Null

\* part_000: text: w.word (undefined when the entry has no word field)
EntryText_000(w) == IF w.word # Null THEN w.word[1] ELSE Undefined

\* part_000: the callback of parsedData.words.map
ImportWord_000(w, i) ==
    Word(i, EntryText_000(w), ImportTime_000(w.time), ImportEndTime_000(w.endTime))

ImportedWords_000(items) == [i \in 1..Len(items) |-> ImportWord_000(items[i], i - 1)]

\* typeof v === 'number' ? v : null
NumberOrNull(v) == IF v.num THEN Some(v.val) ELSE Null

\* the callback of parsedData.words.map
ImportWord(w, i) == Word(i, EntryText(w), NumberOrNull(w.time), NumberOrNull(w.endTime))

ImportedWords(items) == [i \in 1..Len(items) |-> ImportWord(items[i], i - 1)]

\* parsedData.words.map(...) throws a TypeError: words has no map method, or
\* the callback reads a field of null
MapThrows(ws) ==
    \/ ws.kind = "notlist"
    \/ \E i \in 1..Len(ws.items) : ~ws.items[i].obj

\* the entry written for one word by handleExportJSON; time and endTime are
\* `w.time || 0` and `w.endTime || null`
ExportTime(w) == OrElse(w.time, 0)
\* ExportEndTime that writes 0 where the word has no endTime
ExportEndTime_Zero(w) == IF Truthy(w.endTime) THEN w.endTime ELSE Some(0)

ExportEndTime(w) == IF Truthy(w.endTime) THEN w.endTime ELSE Null
ExportWord(w) == [word |-> w.text, time |-> ExportTime(w), endTime |-> ExportEndTime(w)]
ExportData(script, ws) ==
    [text |-> script, words |-> [i \in 1..Len(ws) |-> ExportWord(ws[i])]]

----------------------------------------------------------------------------
(* Sync (recording) controller: the state updaters *)

\* RecordWords with the time written one word too early
RecordWords_OneEarly(ws, k, t) ==
    IF k < Len(ws) /\ k > 0 THEN [ws EXCEPT ![k].time = Some(t)] ELSE ws

\* setWords updater of recordTimestamp; the closure holds syncIndex = k, time = t
RecordWords(ws, k, t) ==
    IF k < Len(ws) THEN [ws EXCEPT ![k + 1].time = Some(t)] ELSE ws

\* RecordIndex without the clamp to words.length
RecordIndex_NoClamp(ws, k) == k + 1

\* setSyncIndex(prev => Math.min(prev + 1, words.length))
RecordIndex(ws, k) == Min(k + 1, Len(ws))

\* UndoWords that removes the word it should only clear
UndoWords_DropsWord(ws, k) ==
    IF k > 0 THEN SubSeq(ws, 1, k - 1) \o SubSeq(ws, k + 1, Len(ws)) ELSE ws

\* UndoWords without the branch for cursor 0
UndoWords_OnlyBehindCursor(ws, k) ==
    IF k > 0 THEN [ws EXCEPT ![k].time = Null] ELSE ws

\* setWords updaters of undoLastTimestamp: newWords[syncIndex - 1].time = null
\* when syncIndex > 0, newWords[0].time = null in the else-if branch
UndoWords(ws, k) ==
    IF k > 0 THEN [ws EXCEPT ![k].time = Null]
    ELSE IF ws[1].time # Null THEN [ws EXCEPT ![1].time = Null]
    ELSE ws

\* UndoIndex that forgets to move the cursor back
UndoIndex_NoMove(k) == k

\* setSyncIndex(prev => prev - 1), only in the syncIndex > 0 branch
UndoIndex(k) == IF k > 0 THEN k - 1 ELSE k

\* UndoSeek to the time of the word being cleared (words[syncIndex - 1])
UndoSeek_ClearedWord(ws, k) ==
    IF k - 1 >= 0 /\ k - 1 < Len(ws) THEN OrElse(ws[k].time, 0) ELSE 0

\* UndoSeek that leaves the transport where it is
UndoSeek_NoSeek(ws, k) == audioTime

\* words[syncIndex - 2]?.time || 0
UndoSeek(ws, k) ==
    IF k - 2 >= 0 /\ k - 2 < Len(ws) THEN OrElse(ws[k - 1].time, 0) ELSE 0

\* the updater writes a field of newWords[j] where no such element exists
UndoThrows(ws, k) ==
    \/ k > 0 /\ k > Len(ws)
    \/ k = 0 /\ Len(ws) = 0

\* disabled={syncIndex === 0 && words[0]?.time === null}
UndoDisabled == syncIndex = 0 /\ Len(words) > 0 /\ words[1].time = Null

----------------------------------------------------------------------------
(* History bookkeeping, not program state *)

\* what is remembered of the state before a capture at cursor k < N: the
\* timeline apart from word k's startTime (the capture overwrites it), the
\* cursor and the transport position
Snapshot ==
    [words |-> [words EXCEPT ![syncIndex + 1].time = Null],
     syncIndex |-> syncIndex,
     audioTime |-> audioTime]

\* the name under which a handler run is remembered: an effective capture, an
\* undo right after it and a capture right after that are told apart, and so
\* is an export right after a rebuild; after the start of a segment playback
\* (playWord) the steps of the running audio, the automatic pause and a seek
\* are remembered as following it
OpName(op) ==
    IF op = "capture" /\ last = "capture.undo" THEN "capture.undo.capture"
    ELSE IF op = "undo" /\ last = "capture" THEN "capture.undo"
    ELSE IF op = "export" /\ last = "rebuild" THEN "rebuild.export"
    ELSE IF op = "playing" THEN (IF last = "segment" THEN "segment" ELSE "other")
    ELSE IF op = "autopause" THEN (IF last = "segment" THEN "segment.autopause" ELSE "other")
    ELSE IF op = "seek" THEN (IF last = "segment" THEN "segment.seek" ELSE "other")
    ELSE op

Hist(op, a) ==
    /\ last' = OpName(op)
    /\ arg' = a
    /\ before' = IF OpName(op) = "capture" THEN Some(Snapshot)
                 ELSE IF OpName(op) \in {"capture.undo", "capture.undo.capture"} THEN before
                 ELSE Null

\* what a handler leaves of the one-shot outputs when it produces none
Quiet == alertMsg' = "none" /\ download' = Null

----------------------------------------------------------------------------
(* Initial state: the component after its mount effect has run *)

\* the requests the render endpoint is followed for
MaxRequests == 2
ReqIds == 1..MaxRequests

\* a request that has not been sent
NoRequest ==
    [pc |-> "none", audio |-> Null, timestamps |-> Null, wroteAudio |-> FALSE,
     wroteJson |-> FALSE, ran |-> "no", failure |-> Null, resp |-> Null]

\* the temp audio file, the temp JSON file and the generated video: absent
NoFiles == [audio |-> Null, json |-> Null, video |-> Null]

\* no video generation has been asked for
NoRender ==
    /\ isRendering = FALSE
    /\ videoUrl = Null
    /\ renderStep = "idle"
    /\ reqs = [r \in ReqIds |-> NoRequest]
    /\ files = NoFiles

\* stands for the initial script literal
DefaultScript == <<"a", " ", "a">>

\* what the user types into the script textarea
ScriptInputs == {<<"a">>}

Init ==
    /\ scriptText = DefaultScript
    /\ words = NewWords(DefaultScript)
    /\ syncIndex = 0
    /\ currentTime = 0
    /\ isSyncing = FALSE
    /\ isPlaying = FALSE
    /\ audioSrc = FALSE
    /\ audioTime = 0
    /\ audioPaused = TRUE
    /\ wordPlayEndTime = Null
    /\ alertMsg = "none"
    /\ download = Null
    /\ crashed = FALSE
    /\ last = "mount"
    /\ arg = Null
    /\ before = Null
    /\ NoRender

----------------------------------------------------------------------------
(* Timeline handlers *)

\* the Reset button
initializeWords ==
    /\ ~crashed
    /\ words' = NewWords(scriptText)
    /\ syncIndex' = 0
    /\ currentTime' = 0
    /\ audioTime' = 0
    /\ Hist("rebuild", Null) /\ Quiet
    /\ UNCHANGED <<scriptText, isSyncing, isPlaying, audioSrc, audioPaused,
                   wordPlayEndTime, crashed>>
    /\ UNCHANGED renderVars

\* the script textarea's onChange
ScriptChange ==
    /\ ~crashed
    /\ \E txt \in ScriptInputs : scriptText' = txt
    /\ Hist("other", Null) /\ Quiet
    /\ UNCHANGED <<words, syncIndex, currentTime, isSyncing, isPlaying, audioSrc,
                   audioTime, audioPaused, wordPlayEndTime, crashed>>
    /\ UNCHANGED renderVars

\* the audio file input: the element loads the new source from its start
handleFileChange ==
    /\ ~crashed
    /\ audioSrc' = TRUE
    /\ audioTime' = 0
    /\ audioPaused' = TRUE
    /\ videoUrl' = Null
    /\ Hist("other", Null) /\ Quiet
    /\ UNCHANGED <<scriptText, words, syncIndex, currentTime, isSyncing, isPlaying,
                   wordPlayEndTime, crashed, isRendering, renderStep, reqs, files>>

\* reader.onload of the JSON file input, for the file content d
ImportFile(d) ==
    IF ~d.json THEN
        \* JSON.parse throws: caught
        /\ alertMsg' = "failed"
        /\ UNCHANGED <<scriptText, words, syncIndex, currentTime, audioTime>>
    ELSE IF ~HasTextAndWords(d) THEN
        /\ alertMsg' = "invalid"
        /\ UNCHANGED <<scriptText, words, syncIndex, currentTime, audioTime>>
    ELSE IF MapThrows(d.words) THEN
        \* setScriptText has been called when words.map throws: caught
        /\ scriptText' = d.text[1]
        /\ alertMsg' = "failed"
        /\ UNCHANGED <<words, syncIndex, currentTime, audioTime>>
    ELSE
        /\ scriptText' = d.text[1]
        /\ words' = ImportedWords(d.words.items)
        /\ syncIndex' = 0
        /\ currentTime' = 0
        /\ audioTime' = 0
        /\ alertMsg' = "loaded"

handleJSONUpload ==
    /\ ~crashed
    /\ \E d \in FileContents :
        /\ ImportFile(d)
        /\ Hist("import", IF alertMsg' = "loaded" THEN Some(d) ELSE Null)
    /\ download' = Null
    /\ UNCHANGED <<isSyncing, isPlaying, audioSrc, audioPaused, wordPlayEndTime,
                   crashed>>
    /\ UNCHANGED renderVars

\* the Save JSON button
handleExportJSON ==
    /\ ~crashed
    /\ download' = IF Len(words) = 0 THEN Null ELSE Some(ExportData(scriptText, words))
    /\ alertMsg' = "none"
    /\ Hist("export", Null)
    /\ UNCHANGED <<scriptText, words, syncIndex, currentTime, isSyncing, isPlaying,
                   audioSrc, audioTime, audioPaused, wordPlayEndTime, crashed>>
    /\ UNCHANGED renderVars

----------------------------------------------------------------------------
(* Playback / seek adapter *)

\* isPlaying once the media events of a handler have been delivered, ip being
\* the value the handler itself set: play() fires onPlay and pause() fires
\* onPause only when they change the element's paused attribute
AfterPlay(ip) == IF audioPaused THEN TRUE ELSE ip
AfterPause(ip) == IF ~audioPaused THEN FALSE ELSE ip

\* the Play/Pause button
togglePlay ==
    /\ ~crashed
    /\ IF isPlaying
       THEN /\ audioPaused' = TRUE
            /\ wordPlayEndTime' = Null
            /\ isPlaying' = AfterPause(~isPlaying)
       ELSE /\ audioPaused' = FALSE
            /\ wordPlayEndTime' = wordPlayEndTime
            /\ isPlaying' = AfterPlay(~isPlaying)
    /\ Hist("other", Null) /\ Quiet
    /\ UNCHANGED <<scriptText, words, syncIndex, currentTime, isSyncing, audioSrc,
                   audioTime, crashed>>
    /\ UNCHANGED renderVars

\* the relative seeks: -1 s, -0.1 s, +0.1 s, +1 s
SeekDeltas == {-100, -10, 10, 100}

\* Math.max(0, Math.min(currentTime + delta, duration || 0))
SeekTarget(delta) == Max(0, Min(audioTime + delta, DurationOr0))

seekAudio(delta) ==
    /\ ~crashed
    /\ audioTime' = SeekTarget(delta)
    /\ currentTime' = SeekTarget(delta)
    /\ wordPlayEndTime' = Null
    /\ Hist("seek", Null) /\ Quiet
    /\ UNCHANGED <<scriptText, words, syncIndex, isSyncing, isPlaying, audioSrc,
                   audioPaused, crashed>>
    /\ UNCHANGED renderVars

\* the seek buttons
SeekButton == \E delta \in SeekDeltas : seekAudio(delta)

\* the range input runs from 0 to duration || 100 (seconds)
SliderDefaultMax == 10000
SliderMax == IF audioSrc THEN AudioDuration ELSE SliderDefaultMax
SliderValues == {v \in {0, AudioDuration} : v <= SliderMax}

\* the seek slider's onChange
SliderSeek ==
    /\ ~crashed
    /\ \E newTime \in SliderValues :
        /\ currentTime' = newTime
        /\ audioTime' = newTime
    /\ wordPlayEndTime' = Null
    /\ Hist("seek", Null) /\ Quiet
    /\ UNCHANGED <<scriptText, words, syncIndex, isSyncing, isPlaying, audioSrc,
                   audioPaused, crashed>>
    /\ UNCHANGED renderVars

\* SegmentEnd that ends the segment where it starts
SegmentEnd_Start(ws, i) == ws[i + 1].time[1]

\* SegmentEnd that always takes the default of half a second
SegmentEnd_HalfSecond(ws, i) == ws[i + 1].time[1] + 50

\* the end of the segment played for word i (0-based), as playWord computes it
SegmentEnd(ws, i) ==
    IF ws[i + 1].endTime # Null THEN ws[i + 1].endTime[1]
    ELSE IF i < Len(ws) - 1 /\ ws[i + 2].time # Null THEN ws[i + 2].time[1]
    ELSE ws[i + 1].time[1] + 50

\* the Play Word button of word i, disabled={w.time === null || !audioSrc}
playWord(i) ==
    /\ ~crashed
    /\ audioSrc
    /\ i < Len(words)
    /\ words[i + 1].time # Null
    /\ wordPlayEndTime' = Some(SegmentEnd(words, i))
    /\ audioTime' = words[i + 1].time[1]
    /\ audioPaused' = FALSE
    /\ isPlaying' = TRUE
    /\ syncIndex' = i
    /\ Hist("segment", Null) /\ Quiet
    /\ UNCHANGED <<scriptText, words, currentTime, isSyncing, audioSrc, crashed>>
    /\ UNCHANGED renderVars

PlayWordButton == \E i \in 0..(Len(words) - 1) : playWord(i)

\* the audio plays on: the position moves forward; at the end of the audio the
\* element fires ended (onEnded)
Playback ==
    /\ ~crashed
    /\ audioSrc /\ ~audioPaused /\ audioTime < AudioDuration
    /\ \E p \in TickGrid :
        /\ p > audioTime
        /\ audioTime' = p
        /\ isPlaying' = IF p = AudioDuration THEN FALSE ELSE isPlaying
    /\ Hist("playing", Null) /\ Quiet
    /\ UNCHANGED <<scriptText, words, syncIndex, currentTime, isSyncing, audioSrc,
                   audioPaused, wordPlayEndTime, crashed>>
    /\ UNCHANGED renderVars

\* the timeupdate listener, when its two conditions hold
handleTimeUpdate ==
    /\ ~crashed
    /\ wordPlayEndTime # Null
    /\ audioTime >= wordPlayEndTime[1] - 1
    /\ audioPaused' = TRUE
    /\ isPlaying' = FALSE
    /\ wordPlayEndTime' = Null
    /\ Hist("autopause", Null) /\ Quiet
    /\ UNCHANGED <<scriptText, words, syncIndex, currentTime, isSyncing, audioSrc,
                   audioTime, crashed>>
    /\ UNCHANGED renderVars

\* the requestAnimationFrame loop, when it changes the clock
updateTime ==
    /\ ~crashed
    /\ currentTime # audioTime
    /\ currentTime' = audioTime
    /\ Hist("playing", Null) /\ Quiet
    /\ UNCHANGED <<scriptText, words, syncIndex, isSyncing, isPlaying, audioSrc,
                   audioTime, audioPaused, wordPlayEndTime, crashed>>
    /\ UNCHANGED renderVars

----------------------------------------------------------------------------
(* Sync (recording) controller: the handlers *)

\* recordTimestamp, called by the key handler
recordTimestamp ==
    /\ words' = RecordWords(words, syncIndex, audioTime)
    /\ syncIndex' = RecordIndex(words, syncIndex)
    /\ Hist(IF syncIndex < Len(words) THEN "capture" ELSE "captureAtEnd", Null)
    /\ Quiet
    /\ UNCHANGED <<scriptText, currentTime, isSyncing, isPlaying, audioSrc, audioTime,
                   audioPaused, wordPlayEndTime, crashed>>
    /\ UNCHANGED renderVars

\* handleKeyDown that captures on Space whatever the recording state
handleKeyDown_AnyState ==
    /\ ~crashed
    /\ \/ recordTimestamp
       \/ ~isSyncing /\ \E delta \in SeekDeltas : seekAudio(delta)

\* the window keydown listener: Space while syncing, the arrow keys otherwise
handleKeyDown ==
    /\ ~crashed
    /\ \/ isSyncing /\ recordTimestamp
       \/ ~isSyncing /\ \E delta \in SeekDeltas : seekAudio(delta)

\* the Undo button
undoLastTimestamp ==
    /\ ~crashed
    /\ ~UndoDisabled
    /\ IF UndoThrows(words, syncIndex)
       THEN /\ crashed' = TRUE
            /\ Hist("undoThrows", Null)
            /\ UNCHANGED <<words, syncIndex, audioTime>>
       ELSE /\ crashed' = FALSE
            /\ words' = UndoWords(words, syncIndex)
            /\ syncIndex' = UndoIndex(syncIndex)
            /\ audioTime' = IF syncIndex > 0 THEN UndoSeek(words, syncIndex) ELSE audioTime
            /\ Hist(IF syncIndex > 0 THEN "undo" ELSE "undoAtStart", Null)
    /\ Quiet
    /\ UNCHANGED <<scriptText, currentTime, isSyncing, isPlaying, audioSrc,
                   audioPaused, wordPlayEndTime>>
    /\ UNCHANGED renderVars

\* CursorWordTime that takes the word before the cursor
CursorWordTime_Previous ==
    IF syncIndex > 0 /\ syncIndex <= Len(words)
    THEN OrElse(words[syncIndex].time, 0)
    ELSE 0

\* words[syncIndex]?.time || 0
CursorWordTime ==
    IF syncIndex < Len(words) THEN OrElse(words[syncIndex + 1].time, 0) ELSE 0

\* the START / STOP RECORDING button, disabled={!audioSrc || !words.length}
ToggleRecording ==
    /\ ~crashed
    /\ audioSrc /\ Len(words) > 0
    /\ isSyncing' = ~isSyncing
    /\ IF ~isSyncing
       THEN /\ audioTime' = CursorWordTime
            /\ audioPaused' = FALSE
            /\ isPlaying' = AfterPlay(isPlaying)
       ELSE /\ audioTime' = audioTime
            /\ audioPaused' = TRUE
            /\ isPlaying' = AfterPause(isPlaying)
    /\ Hist("other", Null) /\ Quiet
    /\ UNCHANGED <<scriptText, words, syncIndex, currentTime, audioSrc,
                   wordPlayEndTime, crashed>>
    /\ UNCHANGED renderVars

----------------------------------------------------------------------------
(* Manual time edits *)

\* what the user leaves in a time input: nothing, text parseFloat rejects, or
\* text parseFloat reads as v
EditEmpty == [kind |-> "empty", val |-> 0]
EditInvalid == [kind |-> "invalid", val |-> 0]
EditNumber(v) == [kind |-> "number", val |-> v]

StartEdits == {EditEmpty, EditInvalid, EditNumber(0), EditNumber(10)}
EndEdits == {EditEmpty, EditInvalid, EditNumber(0), EditNumber(11)}

\* the value a blur handler stores for the input inp over the old value
EditedValue(old, inp) ==
    IF inp.kind = "empty" THEN Null
    ELSE IF inp.kind = "number" THEN Some(inp.val)
    ELSE old

\* onBlur of the start time input of word i (0-based), left holding inp
StartTimeBlurOf(i, inp) ==
    /\ ~crashed
    /\ words' = [words EXCEPT ![i + 1].time = EditedValue(@, inp)]
    /\ Hist("other", Null)
    /\ Quiet
    /\ UNCHANGED <<scriptText, syncIndex, currentTime, isSyncing, isPlaying, audioSrc,
                   audioTime, audioPaused, wordPlayEndTime, crashed>>
    /\ UNCHANGED renderVars

StartTimeBlur ==
    \E i \in 0..(Len(words) - 1), inp \in StartEdits : StartTimeBlurOf(i, inp)

\* onBlur of the end time input of word i (0-based), left holding inp
EndTimeBlurOf(i, inp) ==
    /\ ~crashed
    /\ words' = [words EXCEPT ![i + 1].endTime = EditedValue(@, inp)]
    /\ Hist("other", Null)
    /\ Quiet
    /\ UNCHANGED <<scriptText, syncIndex, currentTime, isSyncing, isPlaying, audioSrc,
                   audioTime, audioPaused, wordPlayEndTime, crashed>>
    /\ UNCHANGED renderVars

EndTimeBlur ==
    \E i \in 0..(Len(words) - 1), inp \in EndEdits : EndTimeBlurOf(i, inp)

----------------------------------------------------------------------------
(* Reveal resolver: the counts derived from the timeline and a clock value. *)
(* The source computes in floating point; here the quotient and the product *)
(* are exact.  The preview mode is a parameter: "highlight", "typing" or    *)
(* "smooth" ("smooth" exists in part_001 only).                             *)

\* the loop test of the prefix scans: w.time !== null && w.time <= currentTime
InPrefix(w, clock) == w.time # Null /\ w.time[1] <= clock

\* PrefixLength that skips a failing word instead of stopping at it
RECURSIVE PrefixLength_NoBreak(_, _, _)
PrefixLength_NoBreak(ws, clock, i) ==
    IF i > Len(ws) THEN 0
    ELSE (IF InPrefix(ws[i], clock) THEN 1 ELSE 0) + PrefixLength_NoBreak(ws, clock, i + 1)

\* PrefixLength that stops counting once the clock has passed 10
RECURSIVE PrefixLength_Drops(_, _, _)
PrefixLength_Drops(ws, clock, i) ==
    IF i > Len(ws) \/ clock > 10 THEN 0
    ELSE IF InPrefix(ws[i], clock) THEN 1 + PrefixLength_Drops(ws, clock, i + 1)
    ELSE 0

\* for (const w of words) { if (test) count++; else break; }, from word i on
RECURSIVE PrefixLength(_, _, _)
PrefixLength(ws, clock, i) ==
    IF i > Len(ws) THEN 0
    ELSE IF InPrefix(ws[i], clock) THEN 1 + PrefixLength(ws, clock, i + 1)
    ELSE 0

\* useMemo visibleWordCount
visibleWordCount(mode, ws, clock) ==
    IF mode # "highlight" THEN 0
    ELSE IF Len(ws) = 0 THEN 0
    ELSE PrefixLength(ws, clock, 1)

\* currentWordIndex after the scan (0-based; -1 when no word passes)
CurrentWordIndex(ws, clock) == PrefixLength(ws, clock, 1) - 1

\* CharsBefore that leaves out the separators
RECURSIVE CharsBefore_NoSeparator(_, _)
CharsBefore_NoSeparator(ws, n) ==
    IF n = 0 THEN 0 ELSE CharsBefore_NoSeparator(ws, n - 1) + Len(ws[n].text)

\* CharsBefore that counts two separators after each word
RECURSIVE CharsBefore_TwoSeparators(_, _)
CharsBefore_TwoSeparators(ws, n) ==
    IF n = 0 THEN 0 ELSE CharsBefore_TwoSeparators(ws, n - 1) + Len(ws[n].text) + 2

\* for (i = 0; i < currentWordIndex; i++) total += words[i].text.length + 1
RECURSIVE CharsBefore(_, _)
CharsBefore(ws, n) ==
    IF n = 0 THEN 0 ELSE CharsBefore(ws, n - 1) + Len(ws[n].text) + 1

\* CharsRevealed that shows the whole word as soon as it is active
CharsRevealed_Whole(elapsed, duration, wordLen) == wordLen

\* CharsRevealed that shows nothing until the word's end
CharsRevealed_Late(elapsed, duration, wordLen) ==
    IF elapsed > duration THEN wordLen ELSE 0

\* CharsRevealed that counts down: the whole word at its start, nothing at its end
CharsRevealed_CountDown(elapsed, duration, wordLen) ==
    IF elapsed <= 0 THEN wordLen
    ELSE IF elapsed >= duration THEN 0
    ELSE wordLen - (elapsed * wordLen) \div duration

\* Math.floor(Math.min(Math.max(elapsed / duration, 0), 1) * wordLen)
CharsRevealed(elapsed, duration, wordLen) ==
    IF elapsed <= 0 THEN 0
    ELSE IF elapsed >= duration THEN wordLen
    ELSE (elapsed * wordLen) \div duration

\* the end of word cwi (0-based) in getVisibleCharsAtTime, before the clamp
FrameEnd(ws, cwi) ==
    IF ws[cwi + 1].endTime # Null THEN ws[cwi + 1].endTime[1]
    ELSE IF cwi < Len(ws) - 1 /\ ws[cwi + 2].time # Null THEN ws[cwi + 2].time[1]
    ELSE OrElse(ws[cwi + 1].time, 0) + 50

\* the end of word cwi (0-based) in visibleCharCount, before the clamp; dur is
\* audioRef.current?.duration, 0 standing for NaN
PreviewEnd(ws, cwi, dur) ==
    LET startTime == OrElse(ws[cwi + 1].time, 0)
    IN  IF ws[cwi + 1].endTime # Null THEN ws[cwi + 1].endTime[1]
        ELSE IF cwi < Len(ws) - 1 THEN OrElse(ws[cwi + 2].time, startTime + 50)
        ELSE Min(startTime + 50, IF dur # 0 THEN dur ELSE startTime + 50)

\* the part both functions share: clamp of the end, progress, characters
RevealAt(ws, cwi, end, clock) ==
    LET startTime == OrElse(ws[cwi + 1].time, 0)
        endTime == Max(end, startTime + 5)
        duration == Max(endTime - startTime, 1)
    IN  CharsBefore(ws, cwi)
          + CharsRevealed(clock - startTime, duration, Len(ws[cwi + 1].text))

\* getVisibleCharsAtTime(time), used for the frames of the video
getVisibleCharsAtTime(ws, time) ==
    IF Len(ws) = 0 THEN 0
    ELSE LET cwi == CurrentWordIndex(ws, time)
         IN  IF cwi = -1 THEN 0
             ELSE RevealAt(ws, cwi, FrameEnd(ws, cwi), time)

\* useMemo visibleCharCount, used for the live preview
visibleCharCount(mode, ws, clock, dur) ==
    IF mode \notin {"typing", "smooth"} THEN 0
    ELSE IF Len(ws) = 0 THEN 0
    ELSE LET cwi == CurrentWordIndex(ws, clock)
         IN  IF cwi = -1 THEN 0
             ELSE RevealAt(ws, cwi, PreviewEnd(ws, cwi, dur), clock)

\* the inputs of the resolver: timelines of up to MaxWords words
ResolverTexts == {<<"a", "b">>, <<"a", "b", "c">>}
ResolverTimes == {Null, Some(0), Some(10), Some(20)}
ResolverEnds == {Null, Some(0), Some(25)}
ResolverClocks == {0, 5, 10, 12, 15, 20, 25, 30, 70}

ResolverWordSeqs ==
    SeqsUpTo([text : ResolverTexts, time : ResolverTimes, endTime : ResolverEnds],
             MaxWords)

ResolverTimelines ==
    {[i \in 1..Len(q) |-> Word(i - 1, q[i].text, q[i].time, q[i].endTime)] :
        q \in ResolverWordSeqs}

\* the component with some timeline in place (imported or edited), idle
Init_Resolver ==
    /\ scriptText = DefaultScript
    /\ words \in ResolverTimelines
    /\ syncIndex = 0
    /\ currentTime = 0
    /\ isSyncing = FALSE
    /\ isPlaying = FALSE
    /\ audioSrc = FALSE
    /\ audioTime = 0
    /\ audioPaused = TRUE
    /\ wordPlayEndTime = Null
    /\ alertMsg = "none"
    /\ download = Null
    /\ crashed = FALSE
    /\ last = "mount"
    /\ arg = Null
    /\ before = Null
    /\ NoRender

\* the seek slider's onChange (part_001), for any clock the slider can give
SliderSeekAny ==
    /\ ~crashed
    /\ \E newTime \in {c \in ResolverClocks : c <= SliderMax} :
        /\ currentTime' = newTime
        /\ audioTime' = newTime
    /\ wordPlayEndTime' = Null
    /\ Hist("seek", Null) /\ Quiet
    /\ UNCHANGED <<scriptText, words, syncIndex, isSyncing, isPlaying, audioSrc,
                   audioPaused, crashed>>
    /\ UNCHANGED renderVars

----------------------------------------------------------------------------
(* part_000: the handlers that differ from part_001.  This component has   *)
(* no wordPlayEndTime ref (the variable stays null), no relative seeks and *)
(* no timeupdate listener, and an effect re-runs initializeWords after     *)
(* every render that changed scriptText.                                   *)

\* useEffect(() => initializeWords(), [initializeWords]): the timeline left
\* once a handler that set the script text to txt and the timeline to ws has
\* been rendered
AfterScriptEffect(txt, ws) == IF txt # scriptText THEN NewWords(txt) ELSE ws

\* the script textarea's onChange, and the effect it triggers
ScriptChange_000 ==
    /\ ~crashed
    /\ \E txt \in ScriptInputs \cup {DefaultScript} :
        /\ txt # scriptText
        /\ scriptText' = txt
        /\ words' = AfterScriptEffect(txt, words)
    /\ syncIndex' = 0
    /\ currentTime' = 0
    /\ audioTime' = 0
    /\ Hist("rebuild", Null) /\ Quiet
    /\ UNCHANGED <<isSyncing, isPlaying, audioSrc, audioPaused, wordPlayEndTime,
                   crashed>>
    /\ UNCHANGED renderVars

\* reader.onload of the JSON file input for the file content d, and the
\* effect the script change triggers
ImportFile_000(d) ==
    IF ~d.json THEN
        /\ alertMsg' = "failed"
        /\ UNCHANGED <<scriptText, words, syncIndex, currentTime, audioTime>>
    ELSE IF ~HasTextAndWords(d) THEN
        /\ alertMsg' = "invalid"
        /\ UNCHANGED <<scriptText, words, syncIndex, currentTime, audioTime>>
    ELSE IF MapThrows(d.words) THEN
        \* setScriptText has been called when words.map throws: caught
        /\ scriptText' = d.text[1]
        /\ alertMsg' = "failed"
        /\ words' = AfterScriptEffect(d.text[1], words)
        /\ IF d.text[1] # scriptText
           THEN syncIndex' = 0 /\ currentTime' = 0 /\ audioTime' = 0
           ELSE UNCHANGED <<syncIndex, currentTime, audioTime>>
    ELSE
        /\ scriptText' = d.text[1]
        /\ words' = AfterScriptEffect(d.text[1], ImportedWords_000(d.words.items))
        /\ syncIndex' = 0
        /\ currentTime' = 0
        /\ audioTime' = 0
        /\ alertMsg' = "loaded"

handleJSONUpload_000 ==
    /\ ~crashed
    /\ \E d \in FileContents :
        /\ ImportFile_000(d)
        /\ Hist("import", IF alertMsg' = "loaded" THEN Some(d) ELSE Null)
    /\ download' = Null
    /\ UNCHANGED <<isSyncing, isPlaying, audioSrc, audioPaused, wordPlayEndTime,
                   crashed>>
    /\ UNCHANGED renderVars

\* the Play Word button of word i, disabled={w.time === null || !audioSrc}
PlayWordButton_000 ==
    /\ ~crashed
    /\ audioSrc
    /\ \E i \in 0..(Len(words) - 1) :
        /\ words[i + 1].time # Null
        /\ audioTime' = words[i + 1].time[1]
        /\ syncIndex' = i
    /\ audioPaused' = FALSE
    /\ isPlaying' = TRUE
    /\ Hist("other", Null) /\ Quiet
    /\ UNCHANGED <<scriptText, words, currentTime, isSyncing, audioSrc,
                   wordPlayEndTime, crashed>>
    /\ UNCHANGED renderVars

\* the window keydown listener: Space while syncing
handleKeyDown_000 ==
    /\ ~crashed
    /\ isSyncing
    /\ recordTimestamp

\* isNaN(val) ? null : val, val being parseFloat of the input's value
ChangedValue_000(inp) == IF inp.kind = "number" THEN Some(inp.val) ELSE Null

\* onChange of the start time input of word i (0-based), now holding inp
StartTimeChangeOf_000(i, inp) ==
    /\ ~crashed
    /\ words' = [words EXCEPT ![i + 1].time = ChangedValue_000(inp)]
    /\ Hist("other", Null)
    /\ Quiet
    /\ UNCHANGED <<scriptText, syncIndex, currentTime, isSyncing, isPlaying, audioSrc,
                   audioTime, audioPaused, wordPlayEndTime, crashed>>
    /\ UNCHANGED renderVars

StartTimeChange_000 ==
    \E i \in 0..(Len(words) - 1), inp \in StartEdits : StartTimeChangeOf_000(i, inp)

\* onChange of the end time input of word i (0-based), now holding inp
EndTimeChangeOf_000(i, inp) ==
    /\ ~crashed
    /\ words' = [words EXCEPT ![i + 1].endTime = ChangedValue_000(inp)]
    /\ Hist("other", Null)
    /\ Quiet
    /\ UNCHANGED <<scriptText, syncIndex, currentTime, isSyncing, isPlaying, audioSrc,
                   audioTime, audioPaused, wordPlayEndTime, crashed>>
    /\ UNCHANGED renderVars

EndTimeChange_000 ==
    \E i \in 0..(Len(words) - 1), inp \in EndEdits : EndTimeChangeOf_000(i, inp)

----------------------------------------------------------------------------
(* The timeline handlers over a wider set of script texts, and the import   *)
(* of the file that the export has just written                             *)

MaxScriptLen == 3

\* the texts the textarea can hold: strings of letters and blanks
ScriptChars == {"a", " "}
ScriptTexts == SeqsUpTo(ScriptChars, MaxScriptLen)

\* the script textarea's onChange (part_001), for any of ScriptTexts
ScriptChangeAny ==
    /\ ~crashed
    /\ \E txt \in ScriptTexts : scriptText' = txt
    /\ Hist("other", Null) /\ Quiet
    /\ UNCHANGED <<words, syncIndex, currentTime, isSyncing, isPlaying, audioSrc,
                   audioTime, audioPaused, wordPlayEndTime, crashed>>
    /\ UNCHANGED renderVars

\* JSON.stringify(data, null, 2) read back by JSON.parse: numbers, strings and
\* null come back as they were; a field that is undefined is not written
AsFileEntry(e) ==
    Entry(IF e.word = Undefined THEN Null ELSE Some(e.word),
          Null,
          JNum(e.time),
          IF e.endTime = Null THEN JOther ELSE JNum(e.endTime[1]))

AsFile(data) ==
    Parsed(Some(data.text),
           WordsList([i \in 1..Len(data.words) |-> AsFileEntry(data.words[i])]))

\* handleJSONUpload for the file timestamps.json that handleExportJSON has
\* just handed to the browser
ReimportExport ==
    /\ ~crashed
    /\ download # Null
    /\ ImportFile(AsFile(download[1]))
    /\ Hist("reimport", Null)
    /\ download' = Null
    /\ UNCHANGED <<isSyncing, isPlaying, audioSrc, audioPaused, wordPlayEndTime,
                   crashed>>
    /\ UNCHANGED renderVars

----------------------------------------------------------------------------

Next ==
    \/ initializeWords
    \/ ScriptChange
    \/ handleFileChange
    \/ handleJSONUpload
    \/ handleExportJSON
    \/ togglePlay
    \/ SeekButton
    \/ SliderSeek
    \/ PlayWordButton
    \/ Playback
    \/ handleTimeUpdate
    \/ updateTime
    \/ handleKeyDown
    \/ undoLastTimestamp
    \/ ToggleRecording
    \/ StartTimeBlur
    \/ EndTimeBlur

Spec == Init /\ [][Next]_vars

Next_000 ==
    \/ initializeWords
    \/ ScriptChange_000
    \/ handleFileChange
    \/ handleJSONUpload_000
    \/ handleExportJSON
    \/ togglePlay
    \/ SliderSeek
    \/ PlayWordButton_000
    \/ Playback
    \/ updateTime
    \/ handleKeyDown_000
    \/ undoLastTimestamp
    \/ ToggleRecording
    \/ StartTimeChange_000
    \/ EndTimeChange_000

Spec_000 == Init /\ [][Next_000]_vars

\* part_001 without audio: the script, the timeline and its persisted form
Next_Timeline ==
    \/ initializeWords
    \/ ScriptChangeAny
    \/ handleJSONUpload
    \/ ReimportExport
    \/ handleExportJSON
    \/ StartTimeBlur
    \/ EndTimeBlur

Spec_Timeline == Init /\ [][Next_Timeline]_vars

\* the events that change what the resolver reads: the clock, the audio
Next_Resolver ==
    \/ SliderSeekAny
    \/ handleFileChange
    \/ updateTime

Spec_Resolver == Init_Resolver /\ [][Next_Resolver]_vars

----------------------------------------------------------------------------
(* Video generation.  handleGenerateVideo is asynchronous: each action below *)
(* is the part of it that runs between two awaits.  In part_001 the video   *)
(* is recorded in the browser from a canvas and a clone of the audio; in    *)
(* part_000 the page posts the audio and the timeline to /api/render.       *)

\* words.some(w => w.time === null)
hasUntimedWords == \E i \in 1..Len(words) : words[i].time = Null

\* the Generate Video button: disabled={isRendering || !audioSrc || !words.length}
GenerateDisabled == isRendering \/ ~audioSrc \/ Len(words) = 0

\* what the page and the transport keep while the generation moves on
PageUnchanged ==
    UNCHANGED <<scriptText, words, syncIndex, currentTime, isSyncing, audioSrc,
                wordPlayEndTime, crashed>>

\* part_001, the click up to the await of the clone's metadata; the user may
\* decline the confirm() shown when some word is untimed
handleGenerateVideo ==
    /\ ~crashed
    /\ ~GenerateDisabled
    /\ \E confirmed \in BOOLEAN :
        IF hasUntimedWords /\ ~confirmed
        THEN UNCHANGED <<isRendering, videoUrl, renderStep>>
        ELSE /\ isRendering' = TRUE
             /\ videoUrl' = Null
             /\ renderStep' = "loading"
    /\ Hist("other", Null) /\ Quiet
    /\ PageUnchanged
    /\ UNCHANGED <<isPlaying, audioTime, audioPaused, reqs, files>>

\* how the part after the clone's loadedmetadata can go: an exception before
\* the transport is touched (AudioContext, MediaRecorder, recorder.start), a
\* rejected play() after the rewind, or the recording under way
CloneLoadedOutcomes == {"setupThrows", "playRejected", "recording"}

\* part_001, from the clone's loadedmetadata to the end of the try block
CloneLoaded ==
    /\ ~crashed
    /\ renderStep = "loading"
    /\ \E outcome \in CloneLoadedOutcomes :
        /\ IF outcome = "setupThrows"
           THEN UNCHANGED <<audioTime, audioPaused, isPlaying>>
           ELSE IF outcome = "playRejected"
           THEN /\ audioTime' = 0
                /\ \E started \in BOOLEAN :
                    /\ audioPaused' = IF started THEN FALSE ELSE audioPaused
                    /\ isPlaying' = IF started THEN AfterPlay(isPlaying) ELSE isPlaying
           ELSE /\ audioTime' = 0
                /\ audioPaused' = FALSE
                /\ isPlaying' = TRUE
        /\ IF outcome = "recording"
           THEN /\ renderStep' = "recording"
                /\ alertMsg' = "none"
                /\ Hist("other", Null)
                /\ UNCHANGED isRendering
           ELSE /\ renderStep' = "idle"
                /\ alertMsg' = "Failed to generate video"
                /\ isRendering' = FALSE
                /\ Hist("renderFailed", Null)
    /\ download' = Null
    /\ PageUnchanged
    /\ UNCHANGED <<videoUrl, reqs, files>>

\* part_001: the clone cannot load the audio and fires error, which nothing
\* listens to: the promise awaited for its metadata is never settled
CloneLoadError ==
    /\ ~crashed
    /\ renderStep = "loading"
    /\ renderStep' = "loadFailed"
    /\ Hist("renderFailed", Null) /\ Quiet
    /\ PageUnchanged
    /\ UNCHANGED <<isPlaying, audioTime, audioPaused, isRendering, videoUrl, reqs,
                   files>>

\* part_001: the clone's ended handler, its timeout and recorder.onstop
CloneEnded ==
    /\ ~crashed
    /\ renderStep = "recording"
    /\ renderStep' = "idle"
    /\ videoUrl' = Some("blob:video")
    /\ isRendering' = FALSE
    /\ isPlaying' = FALSE
    /\ audioPaused' = TRUE
    /\ audioTime' = 0
    /\ Hist("other", Null) /\ Quiet
    /\ PageUnchanged
    /\ UNCHANGED <<reqs, files>>

\* the request the page of part_000 sends; the other requests come from
\* elsewhere
PageReq == 1

\* part_000, the click up to the await of the fetches; the request is on its
\* way to the endpoint
handleGenerateVideo_000 ==
    /\ ~crashed
    /\ ~GenerateDisabled
    /\ reqs[PageReq].pc \in {"none", "done"}
    /\ \E confirmed \in BOOLEAN :
        IF hasUntimedWords /\ ~confirmed
        THEN UNCHANGED <<isRendering, videoUrl, renderStep, reqs>>
        ELSE /\ isRendering' = TRUE
             /\ videoUrl' = Null
             /\ renderStep' = "posting"
             /\ reqs' = [reqs EXCEPT ![PageReq] = NoRequest]
    /\ Hist("other", Null) /\ Quiet
    /\ PageUnchanged
    /\ UNCHANGED <<isPlaying, audioTime, audioPaused, files>>

\* part_000, from the response (or the exception of a fetch or of res.json())
\* to the end of the finally block
RenderSettles_000 ==
    /\ ~crashed
    /\ renderStep = "posting"
    /\ \/ /\ reqs[PageReq].resp # Null
          /\ IF reqs[PageReq].resp[1].success
             THEN /\ videoUrl' = reqs[PageReq].resp[1].videoUrl
                  /\ alertMsg' = "none"
                  /\ Hist("other", Null)
             ELSE /\ videoUrl' = videoUrl
                  /\ alertMsg' = "Error: " \o reqs[PageReq].resp[1].error[1]
                  /\ Hist("renderFailed", Null)
       \/ /\ videoUrl' = videoUrl
          /\ alertMsg' = "Failed to generate video"
          /\ Hist("renderFailed", Null)
    /\ isRendering' = FALSE
    /\ renderStep' = "idle"
    /\ download' = Null
    /\ PageUnchanged
    /\ UNCHANGED <<isPlaying, audioTime, audioPaused, reqs, files>>

----------------------------------------------------------------------------
(* /api/render (src/app/api/render/route.ts): POST, one action per part    *)
(* between two awaits.  A request names its audio and its timestamps by    *)
(* its own id.                                                             *)

\* the messages of the exceptions a write or the command can throw
FailureMessages == {"EACCES", ""}

\* ErrorMessage that drops the message of the exception
ErrorMessage_Generic(message) == "Render failed"

\* error.message || 'Render failed'
ErrorMessage(message) == IF message = "" THEN "Render failed" ELSE message

ErrorResponse(status, message) ==
    [status |-> status, success |-> FALSE, videoUrl |-> Null, error |-> Some(message)]

SuccessResponse ==
    [status |-> 200, success |-> TRUE, videoUrl |-> Some("/generated_video.mp4"),
     error |-> Null]

\* what the page and the transport keep while the endpoint works
EndpointOnly ==
    /\ UNCHANGED <<scriptText, words, syncIndex, currentTime, isSyncing, isPlaying,
                   audioSrc, audioTime, audioPaused, wordPlayEndTime, alertMsg,
                   download, crashed, last, arg, before, isRendering, videoUrl,
                   renderStep>>

\* POST up to the check of the form: formData.get('audio') and
\* formData.get('timestamps') are there or not (an empty timestamps string
\* counts as not there)
Arrive(r, hasAudio, hasTimestamps) ==
    /\ reqs[r].pc = "none"
    /\ reqs' = [reqs EXCEPT ![r] =
         [NoRequest EXCEPT
            !.audio = IF hasAudio THEN Some(r) ELSE Null,
            !.timestamps = IF hasTimestamps THEN Some(r) ELSE Null,
            !.pc = IF hasAudio /\ hasTimestamps THEN "received" ELSE "done",
            !.resp = IF hasAudio /\ hasTimestamps THEN Null
                     ELSE Some(ErrorResponse(400, "Missing audio or timestamps"))]]
    /\ UNCHANGED files
    /\ EndpointOnly

\* the request of the page of part_000 carries both parts
PageRequestArrives ==
    /\ renderStep = "posting"
    /\ Arrive(PageReq, TRUE, TRUE)

\* a request from elsewhere carries any of the parts
OtherRequestArrives ==
    \E r \in ReqIds \ {PageReq}, hasAudio \in BOOLEAN, hasTimestamps \in BOOLEAN :
        Arrive(r, hasAudio, hasTimestamps)

\* the request r ends in the catch block with the exception message
Fails(r, message) ==
    [reqs[r] EXCEPT !.pc = "done",
                    !.failure = Some(message),
                    !.resp = Some(ErrorResponse(500, ErrorMessage(message)))]

\* await writeFileAsync(tempAudioPath, audioBuffer)
SaveAudio ==
    \E r \in ReqIds :
        /\ reqs[r].pc = "received"
        /\ \/ /\ files' = [files EXCEPT !.audio = reqs[r].audio]
              /\ reqs' = [reqs EXCEPT ![r].pc = "audioSaved", ![r].wroteAudio = TRUE]
           \/ \E message \in FailureMessages :
              /\ reqs' = [reqs EXCEPT ![r] = Fails(r, message)]
              /\ UNCHANGED files
        /\ EndpointOnly

\* await writeFileAsync(tempJsonPath, timestamps)
SaveJson ==
    \E r \in ReqIds :
        /\ reqs[r].pc = "audioSaved"
        /\ \/ /\ files' = [files EXCEPT !.json = reqs[r].timestamps]
              /\ reqs' = [reqs EXCEPT ![r].pc = "jsonSaved", ![r].wroteJson = TRUE]
           \/ \E message \in FailureMessages :
              /\ reqs' = [reqs EXCEPT ![r] = Fails(r, message)]
              /\ UNCHANGED files
        /\ EndpointOnly

\* await execAsync(command) and the success response: the compositor reads
\* the two temp files and writes the video
RunCompositor ==
    \E r \in ReqIds :
        /\ reqs[r].pc = "jsonSaved"
        /\ \/ /\ files' = [files EXCEPT !.video = Some(<<files.audio[1], files.json[1]>>)]
              /\ reqs' = [reqs EXCEPT ![r].pc = "done", ![r].ran = "ok",
                                      ![r].resp = Some(SuccessResponse)]
           \/ \E message \in FailureMessages :
              /\ reqs' = [reqs EXCEPT ![r] = [Fails(r, message) EXCEPT !.ran = "failed"]]
              /\ UNCHANGED files
        /\ EndpointOnly

\* a finished request from elsewhere is forgotten, its slot is free again
ForgetRequest ==
    \E r \in ReqIds \ {PageReq} :
        /\ reqs[r].pc = "done"
        /\ reqs' = [reqs EXCEPT ![r] = NoRequest]
        /\ UNCHANGED files
        /\ EndpointOnly

\* the timelines the transport is exercised on: one or two words, each
\* untimed or timed at 0 or at the end of the audio, with or without endTime
TransportTimes == {Null, Some(0), Some(AudioDuration)}
TransportEnds == {Null, Some(0), Some(AudioDuration + 1)}

TransportTimelines ==
    {[i \in 1..Len(q) |-> Word(i - 1, <<"a">>, q[i].time, q[i].endTime)] :
        q \in (SeqsUpTo([time : TransportTimes, endTime : TransportEnds], MaxWords)
                 \ {<<>>})}

\* the component with some timeline in place, idle, no audio loaded yet
Init_Transport ==
    /\ scriptText = DefaultScript
    /\ words \in TransportTimelines
    /\ syncIndex = 0
    /\ currentTime = 0
    /\ isSyncing = FALSE
    /\ isPlaying = FALSE
    /\ audioSrc = FALSE
    /\ audioTime = 0
    /\ audioPaused = TRUE
    /\ wordPlayEndTime = Null
    /\ alertMsg = "none"
    /\ download = Null
    /\ crashed = FALSE
    /\ last = "mount"
    /\ arg = Null
    /\ before = Null
    /\ NoRender

\* part_001: the audio transport, segment playback and the recording switch
Next_Transport ==
    \/ handleFileChange
    \/ togglePlay
    \/ SeekButton
    \/ SliderSeek
    \/ PlayWordButton
    \/ Playback
    \/ handleTimeUpdate
    \/ updateTime
    \/ ToggleRecording

Spec_Transport == Init_Transport /\ [][Next_Transport]_vars

\* part_001: the video generation in the browser
Next_Canvas ==
    \/ handleFileChange
    \/ handleGenerateVideo
    \/ CloneLoaded
    \/ CloneLoadError
    \/ CloneEnded
    \/ StartTimeBlur

Spec_Canvas == Init /\ [][Next_Canvas]_vars

\* part_000 and the render endpoint: the video generation on the server
Next_Render ==
    \/ handleFileChange
    \/ handleGenerateVideo_000
    \/ RenderSettles_000
    \/ PageRequestArrives
    \/ OtherRequestArrives
    \/ SaveAudio
    \/ SaveJson
    \/ RunCompositor
    \/ ForgetRequest

Spec_Render == Init /\ [][Next_Render]_vars

\* the audio is told to play from a position at its very end (a segment that
\* starts there): the element fires ended at once (onEnded)
AudioEnded ==
    /\ ~crashed
    /\ audioSrc /\ ~audioPaused /\ audioTime = AudioDuration /\ isPlaying
    /\ isPlaying' = FALSE
    /\ Hist("playing", Null) /\ Quiet
    /\ UNCHANGED <<scriptText, words, syncIndex, currentTime, isSyncing, audioSrc,
                   audioTime, audioPaused, wordPlayEndTime, crashed>>
    /\ UNCHANGED renderVars

\* part_001: one segment playback at a time, left alone by the user: a file
\* is chosen and a Play Word button clicked only while no boundary watch is
\* pending; the audio plays on and the timeupdate listener runs
Next_Segment ==
    \/ wordPlayEndTime = Null /\ handleFileChange
    \/ wordPlayEndTime = Null /\ PlayWordButton
    \/ Playback
    \/ AudioEnded
    \/ handleTimeUpdate
    \/ updateTime

\* a playing audio element keeps advancing to its end, and the events it
\* fires (ended, timeupdate) are delivered to their listeners
SegmentFairness ==
    WF_vars(Playback) /\ WF_vars(AudioEnded) /\ WF_vars(handleTimeUpdate)

Spec_Segment == Init_Transport /\ [][Next_Segment]_vars /\ SegmentFairness

\* part_001: a recording session on a freshly rebuilt timeline: the audio
\* file is chosen, then only the recording button, the capture key while
\* recording and the Undo button are used, while the audio plays on
Next_Recording ==
    \/ ~audioSrc /\ handleFileChange
    \/ ToggleRecording
    \/ isSyncing /\ handleKeyDown
    \/ undoLastTimestamp
    \/ Playback
    \/ updateTime

Spec_Recording == Init /\ [][Next_Recording]_vars

----------------------------------------------------------------------------
(* Properties *)

CaptureNames == {"capture", "captureAtEnd", "capture.undo.capture"}
UndoNames == {"undo", "capture.undo", "undoAtStart", "undoThrows"}

\* the file content of the import that has just succeeded
Imported == arg[1].words.items

\* the time an imported word must carry for the JSON value v
ExpectedTime(v) == IF v.num THEN <<v.val>> ELSE <<>>

\* C1: while Recording with audio loaded, a capture at cursor k < N with the
\* transport at t sets word k's startTime to t and the cursor to k + 1 and
\* changes no other field of the timeline; a capture at cursor N changes
\* neither the timeline nor the cursor.
C1_CaptureSetsCursorWord ==
    [][(last' \in CaptureNames /\ isSyncing /\ audioSrc) =>
         /\ syncIndex < Len(words) =>
              /\ words' = [words EXCEPT ![syncIndex + 1].time = <<audioTime>>]
              /\ syncIndex' = syncIndex + 1
         /\ syncIndex = Len(words) =>
              /\ words' = words
              /\ syncIndex' = syncIndex]_vars

C1_Witness ==
    /\ last = "capture" /\ isSyncing /\ audioSrc
    /\ syncIndex = 2
    /\ words[2].time = <<AudioDuration>>
    /\ audioTime = AudioDuration

\* C2: an undo at cursor k > 0 clears word k-1's startTime, moves the cursor
\* to k - 1 and seeks the transport to the startTime of word k-2 when that
\* word exists and is timed, to 0 otherwise; nothing else in the timeline
\* changes.
C2_UndoClearsAndSeeks ==
    [][(last' \in UndoNames /\ syncIndex > 0) =>
         /\ ~crashed'
         /\ words' = [words EXCEPT ![syncIndex].time = <<>>]
         /\ syncIndex' = syncIndex - 1
         /\ audioTime' = IF syncIndex >= 2 /\ words[syncIndex - 1].time # <<>>
                         THEN words[syncIndex - 1].time[1]
                         ELSE 0]_vars

C2_Witness ==
    /\ last \in {"undo", "capture.undo"}
    /\ syncIndex = 1
    /\ words[1].time = <<AudioDuration>>
    /\ words[2].time = <<>>
    /\ audioTime = AudioDuration

\* C3: a capture at cursor k < N while Recording, immediately followed by an
\* undo, leaves word k untimed and the cursor at k.
C3_CaptureThenUndo ==
    last = "capture.undo" =>
        /\ words[before[1].syncIndex + 1].time = <<>>
        /\ syncIndex = before[1].syncIndex

C3_Witness ==
    /\ last = "capture.undo"
    /\ before[1].syncIndex = 1
    /\ before[1].audioTime = AudioDuration
    /\ isSyncing

\* the position an undo at cursor k + 1 seeks to, in the state s before the
\* capture at k
RewindOf(s) ==
    IF s.syncIndex >= 1 /\ s.words[s.syncIndex].time # <<>>
    THEN s.words[s.syncIndex].time[1]
    ELSE 0

\* C4 as stated: capture, undo, capture from a Recording state with cursor
\* k < N ends in the timeline and cursor a single capture from that state
\* gives.
C4_RoundTripSameAsCapture ==
    last = "capture.undo.capture" =>
        /\ words = [before[1].words EXCEPT
                      ![before[1].syncIndex + 1].time = <<before[1].audioTime>>]
        /\ syncIndex = before[1].syncIndex + 1

\* C4, amended: capture, undo, capture from a Recording state with cursor
\* k < N ends in the timeline and cursor of a single capture taken at the
\* position the undo seeked to (word k-1's startTime if it is timed, else 0):
\* the cursor is k + 1 and only word k's startTime differs from before.
C4_RoundTripCapturesAtRewind ==
    last = "capture.undo.capture" =>
        /\ words = [before[1].words EXCEPT
                      ![before[1].syncIndex + 1].time = <<RewindOf(before[1])>>]
        /\ syncIndex = before[1].syncIndex + 1

C4_Witness ==
    /\ last = "capture.undo.capture"
    /\ before[1].audioTime = AudioDuration
    /\ words[syncIndex].time = <<0>>

\* C5: capture and undo never throw and leave the cursor within [0, N], in
\* every reachable state, the empty timeline included.
C5_CaptureUndoNeverThrow ==
    /\ ~crashed
    /\ syncIndex \in 0..Len(words)

\* C6: after any sequence of handlers the cursor is an integer in [0, N].
C6_CursorInRange == syncIndex \in 0..Len(words)

C6_Witness ==
    /\ last = "captureAtEnd"
    /\ Len(words) = MaxWords
    /\ syncIndex = Len(words)

\* C7: a failed import is reported and leaves the script text, the timeline,
\* the cursor and the playback clock as they were.
C7_FailedImportChangesNothing ==
    [][(last' = "import" /\ alertMsg' # "loaded") =>
         /\ alertMsg' \in {"failed", "invalid"}
         /\ UNCHANGED <<scriptText, words, syncIndex, currentTime, audioTime>>]_vars

\* C8: a successful import of n entries leaves exactly n words in the
\* record's order, word i with id i, the text of its word field or else of
\* its text field, and the times the record gives; the script text is the
\* record's text and the cursor and the playback clock are 0.
C8_ImportReplacesTimeline ==
    (last = "import" /\ alertMsg = "loaded") =>
        /\ Len(words) = Len(Imported)
        /\ \A i \in 1..Len(words) :
            /\ words[i].id = i - 1
            /\ words[i].text =
                 IF Imported[i].word \notin {<<>>, << <<>> >>} THEN Imported[i].word[1]
                 ELSE Imported[i].text[1]
            /\ words[i].time = ExpectedTime(Imported[i].time)
            /\ words[i].endTime = ExpectedTime(Imported[i].endTime)
        /\ scriptText = arg[1].text[1]
        /\ syncIndex = 0
        /\ currentTime = 0
        /\ audioTime = 0

\* a state of Spec (part_001) in which C8's case has happened
C8_Witness ==
    /\ last = "import" /\ alertMsg = "loaded"
    /\ Len(words) = 2
    /\ words[2].time = <<10>>
    /\ words[2].endTime = <<11>>
    /\ scriptText = ImportText

\* C9: on import a numeric time, 0 included, becomes the word's startTime,
\* and a time that is not a number becomes null.
C9_ImportKeepsNumericTime ==
    (last = "import" /\ alertMsg = "loaded") =>
        \A i \in 1..Len(Imported) :
            /\ i <= Len(words)
            /\ Imported[i].time.num => words[i].time = <<Imported[i].time.val>>
            /\ ~Imported[i].time.num => words[i].time = <<>>

\* a state of Spec (part_001) in which C9's case has happened
C9_Witness ==
    /\ last = "import" /\ alertMsg = "loaded"
    /\ Len(words) = 2
    /\ Imported[1].time = JNum(0) /\ words[1].time = <<0>>
    /\ ~Imported[2].time.num /\ words[2].time = <<>>

\* C10: export writes one entry per word, in order, with the word's text,
\* its startTime or 0 when untimed, and its endTime unchanged (null when
\* null, the number otherwise, 0 included).
C10_ExportKeepsEndTime ==
    download # <<>> =>
        /\ Len(download[1].words) = Len(words)
        /\ \A i \in 1..Len(words) :
            /\ download[1].words[i].word = words[i].text
            /\ download[1].words[i].time =
                 IF words[i].time # <<>> THEN words[i].time[1] ELSE 0
            /\ download[1].words[i].endTime = words[i].endTime

\* C11: importing the file an export of the non-empty timeline T has just
\* written succeeds and yields the texts of T in order, the startTime of every
\* timed word, startTime 0 for every untimed word, and every endTime of T.
C11_ExportImportRoundTrip ==
    [][last' = "reimport" =>
         /\ alertMsg' = "loaded"
         /\ Len(words') = Len(words)
         /\ \A i \in 1..Len(words) :
              /\ i <= Len(words')
              /\ words'[i].text = words[i].text
              /\ words'[i].time =
                   IF words[i].time # <<>> THEN words[i].time ELSE <<0>>
              /\ words'[i].endTime = words[i].endTime]_vars

\* C12: an export right after a rebuild writes a record in which every word
\* has time 0 and endTime null, and the cursor is 0.
C12_RebuildThenExport ==
    last = "rebuild.export" =>
        /\ download # <<>>
        /\ Len(download[1].words) = Len(words)
        /\ \A i \in 1..Len(download[1].words) :
            /\ download[1].words[i].time = 0
            /\ download[1].words[i].endTime = <<>>
        /\ syncIndex = 0

C12_Witness ==
    /\ last = "rebuild.export"
    /\ download # <<>>
    /\ Len(download[1].words) = 2
    /\ scriptText = <<"a", " ", "a">>

\* the maximal runs of non-whitespace characters of s, in order; cur is the
\* run being read
RECURSIVE TokensFrom(_, _)
TokensFrom(s, cur) ==
    LET done == IF cur = <<>> THEN <<>> ELSE <<cur>>
    IN  IF s = <<>> THEN done
        ELSE IF s[1] = " " THEN done \o TokensFrom(Tail(s), <<>>)
        ELSE TokensFrom(Tail(s), Append(cur, s[1]))

Tokens(s) == TokensFrom(s, <<>>)

\* the timeline a rebuild must leave for the script text s
FreshTimeline(s) ==
    [i \in 1..Len(Tokens(s)) |->
        [id |-> i - 1, text |-> Tokens(s)[i], time |-> <<>>, endTime |-> <<>>]]

\* C13: for every script text, the empty and the all-blank one included, a
\* rebuild leaves one word per maximal run of non-whitespace characters, in
\* order, with non-empty text, its position as index and no times, and sets
\* the cursor and the playback clock to 0.
C13_RebuildTokenizes ==
    last = "rebuild" =>
        /\ words = FreshTimeline(scriptText)
        /\ \A i \in 1..Len(words) : words[i].text # <<>>
        /\ syncIndex = 0
        /\ currentTime = 0

\* C14: once a change of the script text by the user has been processed, the
\* timeline is the one rebuilt from the new text and the cursor is 0.
C14_ScriptChangeRebuilds ==
    [][(scriptText' # scriptText /\ last' \notin {"import", "reimport"}) =>
         /\ words' = FreshTimeline(scriptText')
         /\ syncIndex' = 0]_vars

\* the length of the longest prefix of ws whose words are all timed at or
\* before clock
LongestTimedPrefix(ws, clock) ==
    CHOOSE n \in 0..Len(ws) :
        /\ \A j \in 1..n : ws[j].time # <<>> /\ ws[j].time[1] <= clock
        /\ n < Len(ws) => ~(ws[n + 1].time # <<>> /\ ws[n + 1].time[1] <= clock)

\* C15: for every timeline and clock the word-reveal count is the length of
\* the longest prefix of words timed at or before the clock: an untimed or
\* later-timed word blocks every word after it.
C15_WordCountIsTimedPrefix ==
    visibleWordCount("highlight", words, currentTime)
        = LongestTimedPrefix(words, currentTime)

C15_Witness ==
    /\ Len(words) = 2
    /\ words[1].time = <<20>>
    /\ words[2].time = <<10>>
    /\ currentTime = 12
    /\ visibleWordCount("highlight", words, currentTime) = 0

StrictlyIncreasing(ws) ==
    /\ \A i \in 1..Len(ws) : ws[i].time # <<>>
    /\ \A i, j \in 1..Len(ws) : i < j => ws[i].time[1] < ws[j].time[1]

\* C16: for a timeline with strictly increasing start times the word-reveal
\* count never decreases as the clock grows.
C16_WordCountMonotone ==
    StrictlyIncreasing(words) =>
        \A c1, c2 \in ResolverClocks \cup {currentTime} :
            c1 <= c2 =>
                visibleWordCount("highlight", words, c1)
                    <= visibleWordCount("highlight", words, c2)

C16_Witness ==
    /\ StrictlyIncreasing(words)
    /\ Len(words) = 2
    /\ visibleWordCount("highlight", words, 0) = 1
    /\ currentTime = 10
    /\ visibleWordCount("highlight", words, currentTime) = 2

\* text lengths of the first k words, each followed by one separator
RECURSIVE TextAndSeparators(_, _)
TextAndSeparators(ws, k) ==
    IF k = 0 THEN 0 ELSE TextAndSeparators(ws, k - 1) + Len(ws[k].text) + 1

\* the end of word i (1-based) as the claims give it: its endTime if set, else
\* the startTime of the next word if there is one and it is timed, else its
\* own startTime + 0.5 s
ClaimedEnd(ws, i) ==
    IF ws[i].endTime # <<>> THEN ws[i].endTime[1]
    ELSE IF i < Len(ws) /\ ws[i + 1].time # <<>> THEN ws[i + 1].time[1]
    ELSE ws[i].time[1] + 50

\* that end raised to at least startTime + 0.05 s
RaisedEnd(ws, i) ==
    IF ClaimedEnd(ws, i) < ws[i].time[1] + 5 THEN ws[i].time[1] + 5
    ELSE ClaimedEnd(ws, i)

\* floor(clamp(num / den, 0, 1) * len)
FloorOfProgress(num, den, len) ==
    IF num <= 0 THEN 0
    ELSE IF num >= den THEN len
    ELSE CHOOSE q \in 0..len : q * den <= num * len /\ num * len < (q + 1) * den

\* the character count C17 gives for the timeline ws at clock
ClaimedCharCount(ws, clock) ==
    LET i == LongestTimedPrefix(ws, clock)
    IN  IF i = 0 THEN 0
        ELSE LET start == ws[i].time[1]
                 span == RaisedEnd(ws, i) - start
             IN  TextAndSeparators(ws, i - 1)
                   + FloorOfProgress(clock - start,
                                     IF span < 1 THEN 1 ELSE span,
                                     Len(ws[i].text))

\* C17: for every timeline and clock, the frame count and the live preview
\* count are both the count of ClaimedCharCount.
C17_CharCountFormula ==
    /\ getVisibleCharsAtTime(words, currentTime) = ClaimedCharCount(words, currentTime)
    /\ \A mode \in {"typing", "smooth"} :
        visibleCharCount(mode, words, currentTime, DurationOr0)
            = ClaimedCharCount(words, currentTime)

\* C18 as stated: for every timed word i, at clock = its startTime the
\* character count is the text and separators of the words before it.
C18_NothingOfWordAtItsStart ==
    \A i \in 1..Len(words) :
        (words[i].time # <<>> /\ currentTime = words[i].time[1]) =>
            getVisibleCharsAtTime(words, currentTime) = TextAndSeparators(words, i - 1)

\* C18, amended: for every word i that is the active word at clock = its
\* startTime (the timed prefix at that clock ends with word i), the character
\* count is the text and separators of the words before it.
C18_NothingOfActiveWordAtItsStart ==
    \A i \in 1..Len(words) :
        (/\ words[i].time # <<>>
         /\ currentTime = words[i].time[1]
         /\ LongestTimedPrefix(words, currentTime) = i) =>
            getVisibleCharsAtTime(words, currentTime) = TextAndSeparators(words, i - 1)

C18_Witness ==
    /\ Len(words) = 2
    /\ words[2].time = <<10>>
    /\ currentTime = 10
    /\ LongestTimedPrefix(words, currentTime) = 2
    /\ getVisibleCharsAtTime(words, currentTime) = Len(words[1].text) + 1

\* both character counts of the current state, for either character mode
BothCharCountsAre(n) ==
    /\ getVisibleCharsAtTime(words, currentTime) = n
    /\ \A mode \in {"typing", "smooth"} :
        visibleCharCount(mode, words, currentTime, DurationOr0) = n

\* C19 as stated: for every timed word i, at every clock >= its end (explicit
\* or inferred) the character count is the text of words 0..i with the
\* separators between them.
C19_WholeWordAtItsEnd ==
    \A i \in 1..Len(words) :
        (words[i].time # <<>> /\ currentTime >= ClaimedEnd(words, i)) =>
            BothCharCountsAre(TextAndSeparators(words, i - 1) + Len(words[i].text))

\* C19, amended: for every word i that is the active word, at every clock >=
\* its end raised to at least startTime + 0.05 s, the character count is the
\* text of words 0..i with the separators between them.
C19_WholeActiveWordAtRaisedEnd ==
    \A i \in 1..Len(words) :
        (/\ words[i].time # <<>>
         /\ LongestTimedPrefix(words, currentTime) = i
         /\ currentTime >= RaisedEnd(words, i)) =>
            BothCharCountsAre(TextAndSeparators(words, i - 1) + Len(words[i].text))

C19_Witness ==
    /\ Len(words) = 2
    /\ words[2].time = <<10>>
    /\ words[2].endTime = <<25>>
    /\ currentTime = 25
    /\ LongestTimedPrefix(words, currentTime) = 2
    /\ BothCharCountsAre(Len(words[1].text) + 1 + Len(words[2].text))

\* C20: a step that leaves the timeline and the clock as they are leaves the
\* word count and the character counts as they are, whatever else it changes.
C20_CountsDependOnTimelineAndClock ==
    [][(words' = words /\ currentTime' = currentTime) =>
         /\ visibleWordCount("highlight", words', currentTime')
              = visibleWordCount("highlight", words, currentTime)
         /\ getVisibleCharsAtTime(words', currentTime')
              = getVisibleCharsAtTime(words, currentTime)
         /\ \A mode \in {"typing", "smooth"} :
              visibleCharCount(mode, words', currentTime', DurationOr0')
                = visibleCharCount(mode, words, currentTime, DurationOr0)]_vars

\* C21: a segment playback of a word whose endTime is set watches for
\* max(endTime, startTime + 0.05 s), and leaves the stored timeline as it is.
C21_EndTimeClampedWhereConsumed ==
    [][\A i \in 0..(Len(words) - 1) :
         (playWord(i) /\ words[i + 1].endTime # Null) =>
             /\ wordPlayEndTime'
                  = Some(Max(words[i + 1].endTime[1], words[i + 1].time[1] + 5))
             /\ words' = words]_vars

\* the position the start of a recording seeks to, as C22 gives it
StartPosition ==
    IF syncIndex < Len(words) /\ words[syncIndex + 1].time # <<>>
    THEN words[syncIndex + 1].time[1]
    ELSE 0

\* C22: the start action in Idle moves to Recording, seeks to the cursor
\* word's startTime (0 when there is none) and starts playback; the stop
\* action in Recording moves to Idle and pauses; neither changes the timeline
\* or the cursor.
C22_StartStopRecording ==
    [][ToggleRecording =>
         /\ words' = words
         /\ syncIndex' = syncIndex
         /\ IF ~isSyncing
            THEN isSyncing' /\ audioTime' = StartPosition /\ ~audioPaused'
            ELSE ~isSyncing' /\ audioPaused']_vars

C22_Witness ==
    /\ isSyncing
    /\ ~audioPaused
    /\ syncIndex = 1
    /\ Len(words) = 2
    /\ words[2].time = <<10>>
    /\ audioTime = 10
    /\ currentTime = 0

\* C23: while a segment playback is followed by nothing but the running
\* audio, the automatic pause happens only at a position >= end - 0.01 s and
\* >= start, and it clears the boundary watch, so it cannot happen twice.
C23_AutoPauseAtSegmentEnd ==
    [][(last = "segment" /\ handleTimeUpdate) =>
         /\ audioTime >= ClaimedEnd(words, syncIndex + 1) - 1
         /\ audioTime >= words[syncIndex + 1].time[1]
         /\ audioPaused'
         /\ wordPlayEndTime' = Null
         /\ ~(ENABLED handleTimeUpdate)']_vars

C23_Witness ==
    /\ last = "segment.autopause"
    /\ words[syncIndex + 1].time = <<0>>
    /\ words[syncIndex + 1].endTime = <<11>>
    /\ audioTime = 10
    /\ audioPaused
    /\ wordPlayEndTime = Null

\* C24: a relative seek and a slider seek clear the boundary watch, and the
\* start of a segment playback replaces it by the end of the new segment.
C24_SeekOrNewSegmentReplacesWatch ==
    [][/\ ((\E delta \in SeekDeltas : seekAudio(delta)) \/ SliderSeek) =>
              wordPlayEndTime' = Null
       /\ \A i \in 0..(Len(words) - 1) :
              playWord(i) => wordPlayEndTime' = Some(ClaimedEnd(words, i + 1))]_vars

C24_Witness ==
    /\ last = "segment.seek"
    /\ wordPlayEndTime = Null
    /\ ~audioPaused
    /\ words[syncIndex + 1].endTime = <<11>>

\* C25: the stop of a recording leaves no boundary watch pending.
C25_StopClearsWatch ==
    [][(ToggleRecording /\ isSyncing) => wordPlayEndTime' = Null]_vars

\* C26: while no audio is loaded, a play/pause request, a start of recording
\* and a segment playback request change nothing of the playing flag, the
\* Idle/Recording state, the cursor, the timeline and the boundary watch.
C26_NoAudioNoOp ==
    [][(~audioSrc /\ (togglePlay \/ ToggleRecording \/ PlayWordButton)) =>
         UNCHANGED <<isPlaying, isSyncing, syncIndex, words, wordPlayEndTime>>]_vars

\* C30: the cursor changes only by +1 in a capture, by -1 in an undo and to 0
\* in a rebuild or an import.
C30_CursorChangesOnlyByController ==
    [][(syncIndex' # syncIndex) =>
         \/ last' \in CaptureNames /\ syncIndex' = syncIndex + 1
         \/ last' \in UndoNames /\ syncIndex' = syncIndex - 1
         \/ last' \in {"rebuild", "import"} /\ syncIndex' = 0]_vars

\* the value C27 gives a field after an edit: the parsed number, null for an
\* empty input, the previous value for an input that does not parse
ClaimedEdit(old, inp) ==
    IF inp.kind = "number" THEN <<inp.val>>
    ELSE IF inp.kind = "empty" THEN <<>>
    ELSE old

\* C27: a manual edit of a word's startTime or endTime stores the parsed
\* number, stores null for an empty input and keeps the previous value for an
\* input that does not parse; it changes nothing else of the timeline
\* (the onChange handlers of part_000).
C27_EditStoresParsedValue_000 ==
    [][\A i \in 0..(Len(words) - 1), inp \in StartEdits \cup EndEdits :
         /\ StartTimeChangeOf_000(i, inp) =>
                words' = [words EXCEPT ![i + 1].time = ClaimedEdit(@, inp)]
         /\ EndTimeChangeOf_000(i, inp) =>
                words' = [words EXCEPT ![i + 1].endTime = ClaimedEdit(@, inp)]]_vars

\* C27 for the onBlur handlers of part_001: the same statement
C27_EditStoresParsedValue ==
    [][\A i \in 0..(Len(words) - 1), inp \in StartEdits \cup EndEdits :
         /\ StartTimeBlurOf(i, inp) =>
                words' = [words EXCEPT ![i + 1].time = ClaimedEdit(@, inp)]
         /\ EndTimeBlurOf(i, inp) =>
                words' = [words EXCEPT ![i + 1].endTime = ClaimedEdit(@, inp)]]_vars

\* C28: a step in which a render attempt fails reports a reason, leaves the
\* rendering flag false and leaves the script text, the timeline, the cursor
\* and the loaded audio as they were.
C28_RenderFailureReported ==
    [][(last' = "renderFailed") =>
         /\ alertMsg' # "none"
         /\ ~isRendering'
         /\ UNCHANGED <<scriptText, words, syncIndex, audioSrc>>]_vars

\* C29: the endpoint answers success, with a video location, exactly for a
\* request that carried audio and timestamps, had both files written and had
\* the compositor complete; a request without audio or timestamps is answered
\* with an error, nothing written and nothing run; a failed write or command
\* is answered with an error that carries the exception's message ('Render
\* failed' when the message is empty).
C29_EndpointAnswers ==
    \A r \in ReqIds :
        reqs[r].resp # Null =>
            LET q == reqs[r]
                resp == reqs[r].resp[1]
            IN  /\ resp.success <=>
                      (/\ q.audio # Null /\ q.timestamps # Null
                       /\ q.wroteAudio /\ q.wroteJson /\ q.ran = "ok")
                /\ resp.success => (resp.videoUrl # Null /\ resp.error = Null)
                /\ (q.audio = Null \/ q.timestamps = Null) =>
                      (/\ ~resp.success /\ resp.error # Null
                       /\ ~q.wroteAudio /\ ~q.wroteJson /\ q.ran = "no")
                /\ q.failure # Null =>
                      (/\ ~resp.success
                       /\ resp.error = <<IF q.failure[1] = "" THEN "Render failed"
                                         ELSE q.failure[1]>>)

C29_Witness ==
    /\ reqs[1].resp # Null
    /\ reqs[1].resp[1].success
    /\ reqs[2].resp # Null
    /\ reqs[2].wroteAudio
    /\ reqs[2].failure = <<"EACCES">>
    /\ reqs[2].resp[1].error = <<"EACCES">>

\* C31: a relative seek by delta sets the transport position and the clock to
\* min(max(position + delta, 0), duration) and an absolute seek sets them to a
\* value within [0, duration], the duration counting as 0 while it is unknown.
C31_SeekWithinDuration ==
    [][/\ \A delta \in SeekDeltas :
            seekAudio(delta) =>
                /\ audioTime' = Min(Max(audioTime + delta, 0), DurationOr0)
                /\ currentTime' = audioTime'
       /\ SliderSeek =>
            /\ audioTime' \in 0..DurationOr0
            /\ currentTime' = audioTime']_vars

\* the words of two timelines are the same in number, order, index and text
SameWordsApartFromTimes(ws, vs) ==
    /\ Len(ws) = Len(vs)
    /\ \A i \in 1..Len(ws) : ws[i].id = vs[i].id /\ ws[i].text = vs[i].text

\* C32: capture, undo, manual time edits, seeks, play/pause, start/stop of
\* recording, segment playback and export never change the number of words,
\* their order, their indices or their texts; only a rebuild or an import does.
C32_OnlyRebuildOrImportChangesWords ==
    [][last' \in {"rebuild", "import"} \/ SameWordsApartFromTimes(words, words')]_vars

C32_Witness ==
    /\ last = "undo"
    /\ Len(words) = 2
    /\ words[1].time # Null
    /\ words[2].time = Null
    /\ words[1].text = <<"a">> /\ words[2].text = <<"a">>

\* C33: an undo at cursor 0 when word 0 has a startTime sets word 0's
\* startTime to null and leaves the cursor at 0 and the transport position
\* unchanged; an undo at cursor 0 when word 0 is untimed changes nothing.
C33_UndoAtCursorZero ==
    [][(undoLastTimestamp /\ syncIndex = 0 /\ Len(words) > 0) =>
         /\ syncIndex' = 0
         /\ audioTime' = audioTime
         /\ currentTime' = currentTime
         /\ IF words[1].time # Null
            THEN words' = [words EXCEPT ![1].time = Null]
            ELSE words' = words]_vars

C33_Witness ==
    /\ last = "undoAtStart"
    /\ syncIndex = 0
    /\ Len(words) = 2
    /\ words[1].time = Null
    /\ words[2].time # Null
    /\ audioTime = AudioDuration

\* C34: in Idle the capture key changes neither the timeline nor the cursor:
\* a word's startTime is written by a capture only while recording.
C34_CaptureOnlyWhileRecording ==
    [][/\ last' \in CaptureNames => isSyncing
       /\ (~isSyncing /\ (handleKeyDown \/ handleKeyDown_000)) =>
            UNCHANGED <<words, syncIndex>>]_vars

C34_Witness ==
    /\ last = "capture"
    /\ isSyncing
    /\ syncIndex = 1
    /\ words[1].time = Some(AudioDuration)

\* C35: after a segment playback has started, if the transport keeps
\* delivering position updates and the user does nothing, the playback
\* eventually stops and the boundary watch is eventually cleared.
C35_SegmentEventuallyEnds ==
    (wordPlayEndTime # Null) ~> (~isPlaying /\ wordPlayEndTime = Null)

\* C35, the part about the playback alone: it eventually stops.
C35_PlaybackEventuallyStops ==
    (wordPlayEndTime # Null) ~> ~isPlaying

\* C36: from a fresh rebuild, after any sequence of start recording, capture,
\* undo and stop recording, every word with index < cursor has a startTime
\* and every word with index >= cursor has none.
C36_TimedExactlyBelowCursor ==
    \A i \in 0..(Len(words) - 1) : (i < syncIndex) <=> (words[i + 1].time # Null)

C36_Witness ==
    /\ last = "capture.undo"
    /\ isSyncing
    /\ syncIndex = 1
    /\ words[1].time = Some(0)
    /\ words[2].time = Null

\* C37: from a fresh rebuild, after any sequence of start recording, capture,
\* undo and stop recording, the start times of the timed words are
\* non-decreasing in word index.
C37_RecordedTimesNonDecreasing ==
    \A i, j \in 1..Len(words) :
        (i < j /\ words[i].time # Null /\ words[j].time # Null) =>
            words[i].time[1] <= words[j].time[1]

\* C38: for every fixed timeline (out-of-order start times, untimed words and
\* an endTime below the startTime included) and any two clock values
\* c1 <= c2, the character-reveal count at c1 is <= the count at c2, in the
\* frames of the video and in the live preview.
C38_CharCountMonotone ==
    \A c1, c2 \in ResolverClocks \cup {currentTime} :
        c1 <= c2 =>
            /\ getVisibleCharsAtTime(words, c1) <= getVisibleCharsAtTime(words, c2)
            /\ \A mode \in {"typing", "smooth"} :
                visibleCharCount(mode, words, c1, DurationOr0)
                    <= visibleCharCount(mode, words, c2, DurationOr0)

C38_Witness ==
    /\ Len(words) = 2
    /\ words[1].time = Some(20) /\ words[1].endTime = Some(0)
    /\ words[2].time = Some(10) /\ words[2].endTime = Some(25)
    /\ Len(words[2].text) = 3
    /\ currentTime = 25
    /\ getVisibleCharsAtTime(words, 20) < getVisibleCharsAtTime(words, currentTime)
    /\ visibleCharCount("typing", words, 20, DurationOr0)
         < visibleCharCount("typing", words, currentTime, DurationOr0)

\* the length of the word texts joined by single spaces
JoinedLength(ws) == IF Len(ws) = 0 THEN 0 ELSE TextAndSeparators(ws, Len(ws)) - 1

\* C39: for every timeline and clock value the character-reveal count lies
\* between 0 and the length of the word texts joined by single spaces, and
\* the word-reveal count between 0 and the number of words.
C39_CountsAreSplitPositions ==
    \A c \in ResolverClocks \cup {currentTime} :
        /\ getVisibleCharsAtTime(words, c) \in 0..JoinedLength(words)
        /\ \A mode \in {"typing", "smooth"} :
            visibleCharCount(mode, words, c, DurationOr0) \in 0..JoinedLength(words)
        /\ visibleWordCount("highlight", words, c) \in 0..Len(words)

C39_Witness ==
    /\ Len(words) = 2
    /\ currentTime = 70
    /\ getVisibleCharsAtTime(words, currentTime) = JoinedLength(words)
    /\ visibleWordCount("highlight", words, currentTime) = 2
    /\ getVisibleCharsAtTime(words, 0) = 0
    /\ visibleWordCount("highlight", words, 0) = 0

\* C40: when two render requests are handled with their steps interleaved,
\* each request's compositor run reads the audio and the timestamps of that
\* same request, and its success response points to the video made from them.
C40_CompositorReadsOwnInputs ==
    [][\A r \in ReqIds :
         (reqs[r].pc = "jsonSaved" /\ reqs'[r].ran = "ok") =>
            /\ files.audio = reqs[r].audio
            /\ files.json = reqs[r].timestamps
            /\ reqs'[r].resp # Null /\ reqs'[r].resp[1].success
            /\ files'.video = Some(<<reqs[r].audio[1], reqs[r].timestamps[1]>>)]_vars

====
